---------------------------- MODULE Spec2Model ----------------------------
(***************************************************************************)
(* Model of summarize.py: the windowed practice-log aggregator.            *)
(*                                                                         *)
(* Strings are sequences of one-character strings, so that suffix, stem,   *)
(* isdigit, int() and isoformat() are computed the way the code computes   *)
(* them.  A relative path is a sequence of such segments.  A JSON value is *)
(* kept as its text (a string); a JSON object is a function from keys to   *)
(* values.  The tree holds plain directories and files, no symbolic links. *)
(***************************************************************************)
EXTENDS Integers, Sequences, FiniteSets, TLC

(***************************************************************************)
(* Bounds of the model.                                                    *)
(***************************************************************************)
MaxFiles == 2          \* files in the scanned tree
MaxBack == 25          \* largest month count handed to months_ago alone

(***************************************************************************)
(* Strings.                                                                *)
(***************************************************************************)
Digits == {"0", "1", "2", "3", "4", "5", "6", "7", "8", "9"}

DigitVal(c) ==
    CASE c = "0" -> 0 [] c = "1" -> 1 [] c = "2" -> 2 [] c = "3" -> 3
      [] c = "4" -> 4 [] c = "5" -> 5 [] c = "6" -> 6 [] c = "7" -> 7
      [] c = "8" -> 8 [] c = "9" -> 9

DigitChar(n) ==
    CASE n = 0 -> "0" [] n = 1 -> "1" [] n = 2 -> "2" [] n = 3 -> "3"
      [] n = 4 -> "4" [] n = 5 -> "5" [] n = 6 -> "6" [] n = 7 -> "7"
      [] n = 8 -> "8" [] n = 9 -> "9"

\* str.lower() on the letters the model's names use
LowerChar(c) ==
    CASE c = "J" -> "j" [] c = "S" -> "s" [] c = "O" -> "o" [] c = "N" -> "n"
      [] OTHER -> c

lower(s) == [i \in 1..Len(s) |-> LowerChar(s[i])]

\* str.isdigit(): non-empty and every character a digit
isdigit(s) == Len(s) > 0 /\ \A i \in 1..Len(s) : s[i] \in Digits

\* int(s) of an all-digit string
RECURSIVE int(_)
int(s) ==
    IF Len(s) = 0 THEN 0
    ELSE 10 * int(SubSeq(s, 1, Len(s) - 1)) + DigitVal(s[Len(s)])

\* str.rfind("."), 0-based, -1 when absent
rfind_dot(s) ==
    LET hits == {i \in 1..Len(s) : s[i] = "."}
    IN  IF hits = {} THEN -1
        ELSE (CHOOSE i \in hits : \A j \in hits : j <= i) - 1

\* PurePath.suffix: the last dot and what follows it, unless the dot leads or
\* ends the name
suffix(name) ==
    LET i == rfind_dot(name)
    IN  IF 0 < i /\ i < Len(name) - 1 THEN SubSeq(name, i + 1, Len(name))
        ELSE <<>>

\* PurePath.stem
stem(name) ==
    LET i == rfind_dot(name)
    IN  IF 0 < i /\ i < Len(name) - 1 THEN SubSeq(name, 1, i)
        ELSE name

DotJson == <<".", "j", "s", "o", "n">>

\* is_json(path): path.suffix.lower() == ".json"; the suffix is the name's
is_json(name) == lower(suffix(name)) = DotJson

\* str(rel): the segments joined by "/"
RECURSIVE PathStr(_)
PathStr(p) ==
    IF Len(p) = 0 THEN <<>>
    ELSE IF Len(p) = 1 THEN p[1]
    ELSE p[1] \o <<"/">> \o PathStr(Tail(p))

(***************************************************************************)
(* Dates: datetime.date and calendar.monthrange.                           *)
(***************************************************************************)
isleap(y) == y % 4 = 0 /\ (y % 100 # 0 \/ y % 400 = 0)

\* calendar.monthrange(y, m)[1]
max_day_of(y, m) ==
    IF m = 2 THEN (IF isleap(y) THEN 29 ELSE 28)
    ELSE IF m \in {4, 6, 9, 11} THEN 30
    ELSE 31

\* date(y, m, d) raises ValueError outside MINYEAR..MAXYEAR, 1..12, 1..monthrange
DateValid(y, m, d) ==
    /\ 1 <= y /\ y <= 9999
    /\ 1 <= m /\ m <= 12
    /\ 1 <= d /\ d <= max_day_of(y, m)

MkDate(y, m, d) == [year |-> y, month |-> m, day |-> d]

\* date.__le__: the (year, month, day) triples compared in order
DateLE(a, b) ==
    \/ a.year < b.year
    \/ a.year = b.year /\ a.month < b.month
    \/ a.year = b.year /\ a.month = b.month /\ a.day <= b.day

Pad(n, width) ==
    [i \in 1..width |->
        LET e == width - i
            p == IF e = 0 THEN 1 ELSE IF e = 1 THEN 10 ELSE IF e = 2 THEN 100 ELSE 1000
        IN  DigitChar((n \div p) % 10)]

\* date.isoformat(): YYYY-MM-DD
isoformat(d) == Pad(d.year, 4) \o <<"-">> \o Pad(d.month, 2) \o <<"-">> \o Pad(d.day, 2)

\* lines 25-27: while m <= 0: m += 12; y -= 1
RECURSIVE borrow(_, _)
borrow(y, m) == IF m <= 0 THEN borrow(y - 1, m + 12) ELSE <<y, m>>

\* faulty variant: the day is not clamped to the target month's length
months_ago_BUG(d, months) ==
    LET ym == borrow(d.year, d.month - months)
    IN  IF DateValid(ym[1], ym[2], d.day)
        THEN [ok |-> TRUE, date |-> MkDate(ym[1], ym[2], d.day)]
        ELSE [ok |-> FALSE, date |-> d]

\* months_ago(d, months): ok = FALSE stands for the ValueError date() raises
months_ago(d, months) ==
    LET ym == borrow(d.year, d.month - months)
        y == ym[1]
        m == ym[2]
        max_day == max_day_of(y, m)
        day == IF d.day <= max_day THEN d.day ELSE max_day
    IN  IF DateValid(y, m, day)
        THEN [ok |-> TRUE, date |-> MkDate(y, m, day)]
        ELSE [ok |-> FALSE, date |-> d]

(***************************************************************************)
(* parse_path_date(repo_path, fpath) on the path relative to the root.     *)
(* ok = FALSE stands for the (None, None) result.                          *)
(***************************************************************************)
NoMatch == [ok |-> FALSE, domain |-> <<>>, date |-> MkDate(0, 0, 0)]

\* faulty variant: the date is not validated
parse_path_date_BUG(rel) ==
    IF Len(rel) # 4 \/ ~is_json(rel[4]) THEN NoMatch
    ELSE IF ~(isdigit(rel[2]) /\ isdigit(rel[3])) THEN NoMatch
    ELSE LET dd == stem(rel[4])
         IN  IF ~isdigit(dd) THEN NoMatch
             ELSE [ok |-> TRUE, domain |-> rel[1],
                   date |-> MkDate(int(rel[2]), int(rel[3]), int(dd))]

parse_path_date(rel) ==
    IF Len(rel) # 4 \/ ~is_json(rel[4]) THEN NoMatch
    ELSE IF ~(isdigit(rel[2]) /\ isdigit(rel[3])) THEN NoMatch
    ELSE LET dd == stem(rel[4])
         IN  IF ~isdigit(dd) THEN NoMatch
             ELSE IF ~DateValid(int(rel[2]), int(rel[3]), int(dd)) THEN NoMatch
             ELSE [ok |-> TRUE, domain |-> rel[1],
                   date |-> MkDate(int(rel[2]), int(rel[3]), int(dd))]

(***************************************************************************)
(* The inputs of a scan: the tree, the clock, the command line.            *)
(***************************************************************************)
s_math == <<"m", "a", "t", "h">>
s_phys == <<"p", "h", "y", "s">>
s_git == <<".", "g", "i", "t">>
s_node_modules == <<"n", "o", "d", "e", "_", "m", "o", "d", "u", "l", "e", "s">>
s_tmp == <<"t", "m", "p">>
s_2024 == <<"2", "0", "2", "4">>
s_01 == <<"0", "1">>
s_02 == <<"0", "2">>
s_03 == <<"0", "3">>
s_04 == <<"0", "4">>
s_3 == <<"3">>
s_13 == <<"1", "3">>
s_15 == <<"1", "5">>

Json(dd) == dd \o DotJson

\* line 16
DEFAULT_EXCLUDES ==
    {s_git, <<".", "h", "g">>, <<".", "s", "v", "n">>, s_node_modules,
     <<".", "v", "e", "n", "v">>, <<"v", "e", "n", "v">>,
     <<"_", "_", "p", "y", "c", "a", "c", "h", "e", "_", "_">>}

\* -x/--exclude additions (line 225)
UserExcludes == {s_tmp}

\* date.today() (line 70)
Todays == {MkDate(2024, 3, 31)}

\* the months argument of a scan (line 232: at least 1)
MonthsArgs == {1, 2}

\* the dates months_ago is called on alone
AloneDates ==
    {MkDate(y, m, d) : y \in {1, 2, 1900, 2000, 2023, 2024, 2025}, m \in 1..12, d \in 1..31}

\* The files a tree may hold, as paths relative to the root.
Universe ==
    { <<Json(<<"n", "o", "t", "e", "s">>)>>,
      <<s_math, s_2024, s_03, Json(<<"3", "1">>)>>,
      <<s_math, s_2024, s_03, <<"3", "1", ".", "J", "S", "O", "N">> >>,
      <<s_math, s_2024, s_04, Json(s_01)>>,
      <<s_math, s_2024, s_02, Json(<<"2", "9">>)>>,
      <<s_math, s_2024, s_02, Json(<<"2", "8">>)>>,
      <<s_math, s_2024, s_01, Json(<<"3", "1">>)>>,
      <<s_math, s_2024, s_3, Json(<<"5">>)>>,
      <<s_math, s_2024, s_03, <<"r", "e", "a", "d", "m", "e", ".", "t", "x", "t">> >>,
      <<s_math, s_2024, s_03, s_15, Json(<<"x">>)>>,
      <<s_math, Json(<<"x">>)>>,
      <<s_math, s_git, s_03, Json(s_15)>>,
      <<s_phys, s_2024, s_13, Json(s_01)>>,
      <<s_phys, s_2024, s_03, Json(s_15)>>,
      <<s_git, s_2024, s_03, Json(s_15)>>,
      <<s_git, s_node_modules, s_03, Json(s_15)>>,
      <<s_tmp, s_2024, s_03, Json(s_15)>> }

RECURSIVE TreesUpTo(_)
TreesUpTo(k) ==
    IF k = 0 THEN {{}}
    ELSE LET prev == TreesUpTo(k - 1)
         IN  prev \cup {t \cup {p} : t \in prev, p \in Universe}

\* What open() and json.load() give for a file (lines 111-112): a JSON object,
\* a JSON array, another JSON value, text that is no JSON, or an OSError.
EmptyObj == [k \in {} |-> <<>>]
v_90 == <<"9", "0">>
v_mine == <<"m", "i", "n", "e">>
v_list == <<"[", "1", "]">>

Contents ==
    { [kind |-> "dict", obj |-> [score |-> v_90], text |-> <<>>],
      [kind |-> "dict", obj |-> [score |-> v_90, _group |-> v_mine], text |-> <<>>],
      [kind |-> "list", obj |-> EmptyObj, text |-> v_list],
      [kind |-> "scalar", obj |-> EmptyObj, text |-> v_90],
      [kind |-> "badjson", obj |-> EmptyObj, text |-> <<>>],
      [kind |-> "oserror", obj |-> EmptyObj, text |-> <<>>] }

\* st_mtime as datetime.fromtimestamp(...).isoformat() (line 122)
MTime == isoformat(MkDate(2024, 3, 30)) \o <<"T", "0", "9", ":", "0", "0", ":", "0", "0">>

(***************************************************************************)
(* State.                                                                  *)
(***************************************************************************)
VARIABLES
    fs,             \* the files under repo_path, as relative paths
    excludes,       \* the excludes argument
    today, months,  \* date.today() and the months argument
    cutoff,         \* line 71
    todo,           \* os.walk: the directories still to yield, next first
    dirpath,        \* the directory whose filenames are being looped over
    filenames,      \* the filenames of dirpath not yet looped over
    counts, groups, group_meta, skipped_files,   \* lines 73-76
    aggregated,     \* the document written to output_file
    pc,             \* "scan", "done"; "months" and "returned" for months_ago alone
    visited,        \* history: the files counted in total_files_found, in order,
                    \* each with what reading it gave
    arg_d, arg_months, result   \* months_ago called alone: arguments, result

vars == <<fs, excludes, today, months, cutoff, todo, dirpath, filenames, counts,
          groups, group_meta, skipped_files, aggregated, pc, visited,
          arg_d, arg_months, result>>

scan_inputs == <<fs, excludes, today, months, cutoff>>
alone_vars == <<arg_d, arg_months, result>>

NoData == [kind |-> "unread", obj |-> EmptyObj, text |-> <<>>]
NoOutput == [written |-> FALSE]

Root == <<>>

IsPrefix(dir, p) == Len(p) > Len(dir) /\ SubSeq(p, 1, Len(dir)) = dir

\* os.walk's (dirnames, filenames) of a directory
DirNames(dir) == {p[Len(dir) + 1] : p \in {q \in fs : IsPrefix(dir, q) /\ Len(q) > Len(dir) + 1}}
FileNames(dir) == {p[Len(dir) + 1] : p \in {q \in fs : IsPrefix(dir, q) /\ Len(q) = Len(dir) + 1}}

Orders(S) ==
    {s \in [1..Cardinality(S) -> S] : \A i, j \in 1..Cardinality(S) : i # j => s[i] # s[j]}

\* faulty variant: dirnames = [...] rebinds the name and prunes nothing
Prune_BUG(dirnames, excl) == dirnames

\* line 83: dirnames[:] = [d for d in dirnames if d not in excludes]
Prune(dirnames, excl) == {d \in dirnames : d \notin excl}

\* faulty variant: the root's own files are not passed over
IsRootDir_BUG(dir) == FALSE

\* line 87: dirpath_p.resolve() == repo_path
IsRootDir(dir) == dir = Root

\* faulty variant: cutoff < fdate <= today
InWindow_BUG(c, fdate, t) == DateLE(c, fdate) /\ c # fdate /\ DateLE(fdate, t)

\* line 106: cutoff <= fdate <= today
InWindow(c, fdate, t) == DateLE(c, fdate) /\ DateLE(fdate, t)

ProvKeys == {"_source_file", "_file_modified", "_group", "_log_date"}

\* lines 114-124: the item of a parsed object or array, with its provenance
Annotate(data, rel, domain, fdate) ==
    LET base == IF data.kind = "dict" THEN data.obj ELSE [logs |-> data.text]
    IN  [k \in DOMAIN base \cup ProvKeys |->
            IF k = "_source_file" THEN PathStr(rel)
            ELSE IF k = "_file_modified" THEN MTime
            ELSE IF k = "_group" THEN domain
            ELSE IF k = "_log_date" THEN isoformat(fdate)
            ELSE base[k]]

\* faulty variant: groups[domain] = [item]
AppendItem_BUG(g, domain, item) ==
    IF domain \in DOMAIN g THEN [g EXCEPT ![domain] = <<item>>]
    ELSE g @@ (domain :> <<item>>)

\* line 126: groups.setdefault(domain, []).append(item)
AppendItem(g, domain, item) ==
    IF domain \in DOMAIN g THEN [g EXCEPT ![domain] = Append(@, item)]
    ELSE g @@ (domain :> <<item>>)

NewMeta == [found_in_window |-> 0, parsed |-> 0, skipped |-> 0]

\* group_meta.setdefault(domain, {...})
SetDefault(gm, domain) == IF domain \in DOMAIN gm THEN gm ELSE gm @@ (domain :> NewMeta)

\* faulty variant: the group's counters are set, not incremented
MetaParsed_BUG(gm, domain) ==
    [SetDefault(gm, domain) EXCEPT ![domain] = [found_in_window |-> 1, parsed |-> 1, skipped |-> 0]]

\* lines 127-129
MetaParsed(gm, domain) ==
    [SetDefault(gm, domain) EXCEPT
        ![domain].found_in_window = @ + 1, ![domain].parsed = @ + 1]

\* faulty variant: found_in_window is not incremented on a skip
MetaSkipped_BUG(gm, domain) ==
    [SetDefault(gm, domain) EXCEPT ![domain].skipped = @ + 1]

\* lines 136-138 and 143-145
MetaSkipped(gm, domain) ==
    [SetDefault(gm, domain) EXCEPT
        ![domain].found_in_window = @ + 1, ![domain].skipped = @ + 1]

\* group_meta.get(g, {}).get(field, 0)
MetaGet(gm, g) == IF g \in DOMAIN gm THEN gm[g] ELSE NewMeta

\* faulty variant: metadata.groups ranges over groups.keys() only
MetadataGroups_BUG(g, gm) == [k \in DOMAIN g |-> MetaGet(gm, k)]

\* lines 156-163
MetadataGroups(g, gm) == [k \in DOMAIN g \cup DOMAIN gm |-> MetaGet(gm, k)]

\* lines 147-167
BuildAggregated ==
    [written |-> TRUE,
     metadata |->
        [excludes |-> excludes,
         window_months |-> months,
         window_start |-> isoformat(cutoff),
         window_end |-> isoformat(today),
         total_files_found |-> counts.total_files_found,
         total_parsed |-> counts.total_parsed,
         total_skipped |-> counts.total_skipped,
         total_within_window |-> counts.total_within_window,
         groups |-> MetadataGroups(groups, group_meta),
         parsing_errors |-> skipped_files],
     groups |-> groups]

(***************************************************************************)
(* aggregate_logs.                                                         *)
(***************************************************************************)
\* lines 70-76, on entry to the os.walk loop
Init ==
    /\ fs \in TreesUpTo(MaxFiles)
    /\ excludes = DEFAULT_EXCLUDES \cup UserExcludes
    /\ today \in Todays
    /\ months \in MonthsArgs
    /\ cutoff = months_ago(today, months).date
    /\ todo = <<Root>>
    /\ dirpath = Root
    /\ filenames = {}
    /\ counts = [total_files_found |-> 0, total_parsed |-> 0,
                 total_skipped |-> 0, total_within_window |-> 0]
    /\ groups = <<>>
    /\ group_meta = <<>>
    /\ skipped_files = <<>>
    /\ aggregated = NoOutput
    /\ pc = "scan"
    /\ visited = <<>>
    /\ arg_d = MkDate(1, 1, 1) /\ arg_months = 1 /\ result = [ok |-> FALSE, date |-> arg_d]

\* lines 81-88: os.walk yields the next directory; its excluded
\* subdirectories are pruned; the root's own files are passed over
WalkDir ==
    /\ pc = "scan" /\ filenames = {} /\ todo # <<>>
    /\ LET dir == Head(todo)
           kept == Prune(DirNames(dir), excludes)
       IN  /\ \E order \in Orders(kept) :
                todo' = [i \in 1..Len(order) |-> Append(dir, order[i])] \o Tail(todo)
           /\ dirpath' = dir
           /\ filenames' = IF IsRootDir(dir) THEN {} ELSE FileNames(dir)
    /\ UNCHANGED <<scan_inputs, counts, groups, group_meta, skipped_files,
                   aggregated, pc, visited, alone_vars>>

\* lines 92-93
SkipNotJson ==
    /\ pc = "scan"
    /\ \E fname \in filenames :
        /\ ~is_json(fname)
        /\ filenames' = filenames \ {fname}
    /\ UNCHANGED <<scan_inputs, todo, dirpath, counts, groups, group_meta,
                   skipped_files, aggregated, pc, visited, alone_vars>>

Msg(fpath, kind) == [file |-> fpath, kind |-> kind]

\* lines 95-103
PathMismatch ==
    /\ pc = "scan"
    /\ \E fname \in filenames :
        LET fpath == Append(dirpath, fname)
        IN  /\ is_json(fname)
            /\ ~parse_path_date(fpath).ok
            /\ filenames' = filenames \ {fname}
            /\ counts' = [counts EXCEPT !.total_files_found = @ + 1,
                                        !.total_skipped = @ + 1]
            /\ skipped_files' = Append(skipped_files, Msg(fpath, "path does not match"))
            /\ visited' = Append(visited, [path |-> fpath, data |-> NoData])
    /\ UNCHANGED <<scan_inputs, todo, dirpath, groups, group_meta, aggregated,
                   pc, alone_vars>>

\* lines 95-107
OutOfWindow ==
    /\ pc = "scan"
    /\ \E fname \in filenames :
        LET fpath == Append(dirpath, fname)
            r == parse_path_date(fpath)
        IN  /\ is_json(fname)
            /\ r.ok
            /\ ~InWindow(cutoff, r.date, today)
            /\ filenames' = filenames \ {fname}
            /\ counts' = [counts EXCEPT !.total_files_found = @ + 1]
            /\ visited' = Append(visited, [path |-> fpath, data |-> NoData])
    /\ UNCHANGED <<scan_inputs, todo, dirpath, groups, group_meta, skipped_files,
                   aggregated, pc, alone_vars>>

\* lines 95-130: the file is read, and holds a JSON object or array
Parsed ==
    /\ pc = "scan"
    /\ \E fname \in filenames, data \in Contents :
        LET fpath == Append(dirpath, fname)
            r == parse_path_date(fpath)
        IN  /\ is_json(fname)
            /\ r.ok
            /\ InWindow(cutoff, r.date, today)
            /\ data.kind \in {"dict", "list"}
            /\ filenames' = filenames \ {fname}
            /\ groups' = AppendItem(groups, r.domain, Annotate(data, fpath, r.domain, r.date))
            /\ group_meta' = MetaParsed(group_meta, r.domain)
            /\ counts' = [counts EXCEPT !.total_files_found = @ + 1,
                                        !.total_within_window = @ + 1,
                                        !.total_parsed = @ + 1]
            /\ visited' = Append(visited, [path |-> fpath, data |-> data])
    /\ UNCHANGED <<scan_inputs, todo, dirpath, skipped_files, aggregated, pc, alone_vars>>

\* lines 95-112, 132-138: json.load raises JSONDecodeError
DecodeError ==
    /\ pc = "scan"
    /\ \E fname \in filenames, data \in Contents :
        LET fpath == Append(dirpath, fname)
            r == parse_path_date(fpath)
        IN  /\ is_json(fname)
            /\ r.ok
            /\ InWindow(cutoff, r.date, today)
            /\ data.kind = "badjson"
            /\ filenames' = filenames \ {fname}
            /\ skipped_files' = Append(skipped_files, Msg(fpath, "JSON decode error"))
            /\ group_meta' = MetaSkipped(group_meta, r.domain)
            /\ counts' = [counts EXCEPT !.total_files_found = @ + 1,
                                        !.total_within_window = @ + 1,
                                        !.total_skipped = @ + 1]
            /\ visited' = Append(visited, [path |-> fpath, data |-> data])
    /\ UNCHANGED <<scan_inputs, todo, dirpath, groups, aggregated, pc, alone_vars>>

\* lines 95-119, 139-145: open() raises, or the JSON root is no object or array
OtherError ==
    /\ pc = "scan"
    /\ \E fname \in filenames, data \in Contents :
        LET fpath == Append(dirpath, fname)
            r == parse_path_date(fpath)
        IN  /\ is_json(fname)
            /\ r.ok
            /\ InWindow(cutoff, r.date, today)
            /\ data.kind \in {"scalar", "oserror"}
            /\ filenames' = filenames \ {fname}
            /\ skipped_files' = Append(skipped_files,
                    Msg(fpath, IF data.kind = "scalar" THEN "Unsupported JSON root type"
                               ELSE "exception"))
            /\ group_meta' = MetaSkipped(group_meta, r.domain)
            /\ counts' = [counts EXCEPT !.total_files_found = @ + 1,
                                        !.total_within_window = @ + 1,
                                        !.total_skipped = @ + 1]
            /\ visited' = Append(visited, [path |-> fpath, data |-> data])
    /\ UNCHANGED <<scan_inputs, todo, dirpath, groups, aggregated, pc, alone_vars>>

\* lines 147-170: the walk is over and the document is built and written
Finish ==
    /\ pc = "scan" /\ filenames = {} /\ todo = <<>>
    /\ aggregated' = BuildAggregated
    /\ pc' = "done"
    /\ UNCHANGED <<scan_inputs, todo, dirpath, filenames, counts, groups, group_meta,
                   skipped_files, visited, alone_vars>>

Next ==
    \/ WalkDir
    \/ SkipNotJson
    \/ PathMismatch
    \/ OutOfWindow
    \/ Parsed
    \/ DecodeError
    \/ OtherError
    \/ Finish

Spec == Init /\ [][Next]_vars

(***************************************************************************)
(* months_ago called alone, on any valid date and any month count.         *)
(***************************************************************************)
InitAlone ==
    /\ arg_d \in {d \in AloneDates : DateValid(d.year, d.month, d.day)}
    /\ arg_months \in 1..MaxBack
    /\ result = [ok |-> FALSE, date |-> arg_d]
    /\ pc = "months"
    /\ fs = {}
    /\ excludes = DEFAULT_EXCLUDES
    /\ today = MkDate(2024, 3, 31) /\ months = 1 /\ cutoff = today
    /\ todo = <<>> /\ dirpath = Root /\ filenames = {}
    /\ counts = [total_files_found |-> 0, total_parsed |-> 0,
                 total_skipped |-> 0, total_within_window |-> 0]
    /\ groups = <<>> /\ group_meta = <<>> /\ skipped_files = <<>>
    /\ aggregated = NoOutput
    /\ visited = <<>>

\* lines 21-29
MonthsAgoCall ==
    /\ pc = "months"
    /\ result' = months_ago(arg_d, arg_months)
    /\ pc' = "returned"
    /\ UNCHANGED <<scan_inputs, todo, dirpath, filenames, counts, groups, group_meta,
                   skipped_files, aggregated, visited, arg_d, arg_months>>

MonthsSpec == InitAlone /\ [][MonthsAgoCall]_vars

(***************************************************************************)
(* Vocabulary of the properties.                                           *)
(***************************************************************************)
\* date.toordinal(): the days from 0001-01-01, that day being 1
DaysBeforeMonth == <<0, 31, 59, 90, 120, 151, 181, 212, 243, 273, 304, 334>>

LeapYear(y) == y % 400 = 0 \/ (y % 4 = 0 /\ y % 100 # 0)

Ordinal(d) ==
    LET y == d.year - 1
    IN  y * 365 + (y \div 4) - (y \div 100) + (y \div 400)
        + DaysBeforeMonth[d.month]
        + (IF d.month > 2 /\ LeapYear(d.year) THEN 1 ELSE 0)
        + d.day

MonthLength == <<31, 28, 31, 30, 31, 30, 31, 31, 30, 31, 30, 31>>

DaysIn(y, m) == MonthLength[m] + (IF m = 2 /\ LeapYear(y) THEN 1 ELSE 0)

Min(a, b) == IF a <= b THEN a ELSE b

\* a file strictly below the root, named *.json, under no excluded directory
UnderExcluded(p) == \E i \in 1..(Len(p) - 1) : p[i] \in excludes
Candidates == {p \in fs : Len(p) >= 2 /\ is_json(p[Len(p)]) /\ ~UnderExcluded(p)}

Times(p) == Cardinality({i \in DOMAIN visited : visited[i].path = p})

\* a path that classifies, with a date outside [cutoff, today]
OutsideWindow(p) ==
    /\ parse_path_date(p).ok
    /\ ~(/\ Ordinal(cutoff) <= Ordinal(parse_path_date(p).date)
         /\ Ordinal(parse_path_date(p).date) <= Ordinal(today))

\* the places <<group, index>> of a groups mapping
Slots(g) == UNION {{<<k, i>> : i \in 1..Len(g[k])} : k \in DOMAIN g}

\* the places of the output groups holding an item of file p
ItemsOf(g, p) == {s \in Slots(g) : g[s[1]][s[2]]["_source_file"] = PathStr(p)}

HasMsg(errors, p) == \E i \in DOMAIN errors : errors[i].file = p

RECURSIVE SumField(_, _, _)
SumField(gm, S, field) ==
    IF S = {} THEN 0
    ELSE LET g == CHOOSE x \in S : TRUE
         IN  gm[g][field] + SumField(gm, S \ {g}, field)

\* this step counts file p in total_files_found
VisitStep(p) ==
    /\ Len(visited') = Len(visited) + 1
    /\ visited'[Len(visited')].path = p

\* domain/YYYY/MM/DD.json in shape, but no calendar date
InvalidDateShape(p) ==
    /\ Len(p) = 4 /\ is_json(p[4])
    /\ isdigit(p[2]) /\ isdigit(p[3]) /\ isdigit(stem(p[4]))
    /\ ~DateValid(int(p[2]), int(p[3]), int(stem(p[4])))

(***************************************************************************)
(* C1. total_files_found is total_parsed + total_skipped + the number of   *)
(* counted files that classify but are dated outside [cutoff, today], after *)
(* every file; and when the scan is over every .json file strictly below   *)
(* the root under no excluded directory has been counted exactly once, and *)
(* nothing else has been counted.                                          *)
(***************************************************************************)
C1_FoundAccounting ==
    /\ counts.total_files_found = Len(visited)
    /\ counts.total_files_found =
          counts.total_parsed + counts.total_skipped
          + Cardinality({i \in DOMAIN visited : OutsideWindow(visited[i].path)})
    /\ pc = "done" =>
          /\ \A p \in fs : Times(p) = IF p \in Candidates THEN 1 ELSE 0
          /\ aggregated.metadata.total_files_found = Cardinality(Candidates)

C1_Witness ==
    /\ pc = "done"
    /\ aggregated.metadata.total_files_found = 2
    /\ aggregated.metadata.total_parsed = 1
    /\ aggregated.metadata.total_skipped = 0

(***************************************************************************)
(* C2, as claimed. When the scan is over, every counted file is either an  *)
(* item of exactly one group list and has no error message, or has an      *)
(* error message and is no item.                                           *)
(***************************************************************************)
C2_Original ==
    pc = "done" =>
        \A i \in DOMAIN visited :
            LET p == visited[i].path
                n == Cardinality(ItemsOf(aggregated.groups, p))
                e == HasMsg(aggregated.metadata.parsing_errors, p)
            IN  (n = 1 /\ ~e) \/ (n = 0 /\ e)

(***************************************************************************)
(* C2, amended. When the scan is over, every counted file that was not     *)
(* dropped as outside the window is either an item of exactly one group    *)
(* list and has no error message, or has an error message and is no item;  *)
(* a file dropped as outside the window is neither; total_parsed is the    *)
(* number of items and total_skipped the number of error messages.         *)
(***************************************************************************)
C2_ParsedXorSkipped ==
    pc = "done" =>
        /\ \A i \in DOMAIN visited :
            LET p == visited[i].path
                n == Cardinality(ItemsOf(aggregated.groups, p))
                e == HasMsg(aggregated.metadata.parsing_errors, p)
            IN  IF OutsideWindow(p) THEN n = 0 /\ ~e
                ELSE (n = 1 /\ ~e) \/ (n = 0 /\ e)
        /\ aggregated.metadata.total_parsed = Cardinality(Slots(aggregated.groups))
        /\ aggregated.metadata.total_skipped = Len(aggregated.metadata.parsing_errors)
        /\ \A s \in Slots(aggregated.groups) :
              \E i \in DOMAIN visited :
                 aggregated.groups[s[1]][s[2]]["_source_file"] = PathStr(visited[i].path)

C2_Witness ==
    /\ pc = "done"
    /\ \E i, j \in DOMAIN visited :
          /\ Cardinality(ItemsOf(aggregated.groups, visited[i].path)) = 1
          /\ HasMsg(aggregated.metadata.parsing_errors, visited[j].path)
          /\ visited[j].data.kind = "badjson"

(***************************************************************************)
(* C3. In every state of the scan, and in metadata.groups of the document, *)
(* each group has found_in_window = parsed + skipped.                      *)
(***************************************************************************)
C3_GroupFound ==
    /\ \A g \in DOMAIN group_meta :
          group_meta[g].found_in_window = group_meta[g].parsed + group_meta[g].skipped
    /\ pc = "done" =>
          \A g \in DOMAIN aggregated.metadata.groups :
             LET m == aggregated.metadata.groups[g]
             IN  m.found_in_window = m.parsed + m.skipped

C3_Witness ==
    /\ pc = "done"
    /\ \E g \in DOMAIN aggregated.metadata.groups :
          /\ aggregated.metadata.groups[g].parsed = 1
          /\ aggregated.metadata.groups[g].skipped = 1

(***************************************************************************)
(* C4, as claimed. When the scan is over the groups' parsed, skipped and   *)
(* found_in_window counters sum to total_parsed, total_skipped and         *)
(* total_within_window.                                                    *)
(***************************************************************************)
C4_Original ==
    pc = "done" =>
        LET m == aggregated.metadata
        IN  /\ SumField(m.groups, DOMAIN m.groups, "parsed") = m.total_parsed
            /\ SumField(m.groups, DOMAIN m.groups, "skipped") = m.total_skipped
            /\ SumField(m.groups, DOMAIN m.groups, "found_in_window") = m.total_within_window

(***************************************************************************)
(* C4, amended. When the scan is over the groups' parsed and               *)
(* found_in_window counters sum to total_parsed and total_within_window,   *)
(* and their skipped counters sum to total_skipped less the number of      *)
(* counted files whose path did not classify (these are in no group).      *)
(***************************************************************************)
C4_GroupSums ==
    pc = "done" =>
        LET m == aggregated.metadata
            unclassified == {i \in DOMAIN visited : ~parse_path_date(visited[i].path).ok}
        IN  /\ SumField(m.groups, DOMAIN m.groups, "parsed") = m.total_parsed
            /\ SumField(m.groups, DOMAIN m.groups, "skipped")
                  = m.total_skipped - Cardinality(unclassified)
            /\ SumField(m.groups, DOMAIN m.groups, "found_in_window") = m.total_within_window

C4_Witness ==
    /\ pc = "done"
    /\ aggregated.metadata.total_skipped = 2
    /\ SumField(aggregated.metadata.groups, DOMAIN aggregated.metadata.groups, "skipped") = 1
    /\ \E i \in DOMAIN visited : ~parse_path_date(visited[i].path).ok

(***************************************************************************)
(* C5, as claimed. The step that counts a file shaped domain/YYYY/MM/DD.json *)
(* with an invalid calendar date records a path-mismatch message and adds  *)
(* one to the skipped counter of the domain's group, leaving its parsed    *)
(* counter as it was.                                                      *)
(***************************************************************************)
C5_Original ==
    [][\A p \in fs :
          (InvalidDateShape(p) /\ VisitStep(p)) =>
             /\ skipped_files' = Append(skipped_files, Msg(p, "path does not match"))
             /\ MetaGet(group_meta', p[1]).skipped = MetaGet(group_meta, p[1]).skipped + 1
             /\ MetaGet(group_meta', p[1]).parsed = MetaGet(group_meta, p[1]).parsed]_vars

(***************************************************************************)
(* C5, amended. The step that counts a file shaped domain/YYYY/MM/DD.json  *)
(* with an invalid calendar date records a path-mismatch message and adds  *)
(* one to total_skipped and to no group's counters: group_meta and groups  *)
(* stay as they were, the domain's group included.                         *)
(***************************************************************************)
C5_InvalidDateSkip ==
    [][\A p \in fs :
          (InvalidDateShape(p) /\ VisitStep(p)) =>
             /\ skipped_files' = Append(skipped_files, Msg(p, "path does not match"))
             /\ counts' = [counts EXCEPT !.total_files_found = @ + 1,
                                         !.total_skipped = @ + 1]
             /\ group_meta' = group_meta
             /\ groups' = groups]_vars

C5_Witness ==
    /\ pc = "done"
    /\ \E i \in DOMAIN visited :
          /\ visited[i].path = <<s_phys, s_2024, s_13, Json(s_01)>>
          /\ HasMsg(aggregated.metadata.parsing_errors, visited[i].path)
          /\ s_phys \notin DOMAIN aggregated.metadata.groups

(***************************************************************************)
(* C6. The step that counts a file whose path classifies to date d adds    *)
(* one to total_within_window, and parses or skips the file, exactly when  *)
(* cutoff <= d <= today (as day numbers); otherwise it adds one to         *)
(* total_files_found and changes nothing else, and the file is in neither  *)
(* groups nor parsing_errors of the document.                              *)
(***************************************************************************)
C6_Window ==
    /\ [][\A p \in fs :
            (VisitStep(p) /\ parse_path_date(p).ok) =>
               IF OutsideWindow(p)
               THEN /\ counts' = [counts EXCEPT !.total_files_found = @ + 1]
                    /\ groups' = groups
                    /\ group_meta' = group_meta
                    /\ skipped_files' = skipped_files
               ELSE /\ counts'.total_within_window = counts.total_within_window + 1
                    /\ counts'.total_parsed + counts'.total_skipped
                          = counts.total_parsed + counts.total_skipped + 1]_vars
    /\ [](pc = "done" =>
            \A i \in DOMAIN visited :
               OutsideWindow(visited[i].path) =>
                  /\ ItemsOf(aggregated.groups, visited[i].path) = {}
                  /\ ~HasMsg(aggregated.metadata.parsing_errors, visited[i].path))

C6_Witness ==
    /\ pc = "done"
    /\ \E i, j \in DOMAIN visited :
          LET di == parse_path_date(visited[i].path)
              dj == parse_path_date(visited[j].path)
          IN  /\ di.ok /\ Ordinal(di.date) = Ordinal(cutoff)
              /\ Cardinality(ItemsOf(aggregated.groups, visited[i].path)) = 1
              /\ dj.ok /\ Ordinal(dj.date) = Ordinal(cutoff) - 1
              /\ ItemsOf(aggregated.groups, visited[j].path) = {}
    /\ aggregated.metadata.total_within_window = 1

(***************************************************************************)
(* C7, as claimed. For every valid date d and every N >= 1, months_ago     *)
(* returns the date whose (year, month) is d's moved back N months and     *)
(* whose day is min(d.day, days in that month).                            *)
(***************************************************************************)
TargetMonthIndex == arg_d.year * 12 + (arg_d.month - 1) - arg_months
TargetYear == TargetMonthIndex \div 12
TargetMonth == (TargetMonthIndex % 12) + 1

C7_Original ==
    pc = "returned" =>
        /\ result.ok
        /\ result.date = MkDate(TargetYear, TargetMonth,
                                Min(arg_d.day, DaysIn(TargetYear, TargetMonth)))

(***************************************************************************)
(* C7, amended. For every valid date d and every N >= 1 whose target month *)
(* is not before January of year 1, months_ago returns the date whose      *)
(* (year, month) is d's moved back N months and whose day is min(d.day,    *)
(* days in that month); when the target month is before year 1 it raises   *)
(* ValueError instead.                                                     *)
(***************************************************************************)
C7_MonthsAgo ==
    pc = "returned" =>
        IF TargetYear >= 1
        THEN /\ result.ok
             /\ result.date = MkDate(TargetYear, TargetMonth,
                                     Min(arg_d.day, DaysIn(TargetYear, TargetMonth)))
        ELSE ~result.ok

C7_Witness ==
    /\ pc = "returned"
    /\ arg_d = MkDate(2024, 3, 31) /\ arg_months = 13
    /\ result.ok /\ result.date = MkDate(2023, 2, 28)

(***************************************************************************)
(* C8, as claimed. Every item holds every key of the JSON object read from *)
(* its file with the value read, and besides these exactly the four        *)
(* provenance keys.                                                        *)
(***************************************************************************)
C8_RoundTrip ==
    \A i \in DOMAIN visited :
        visited[i].data.kind = "dict" =>
            \A s \in ItemsOf(groups, visited[i].path) :
                LET item == groups[s[1]][s[2]]
                    obj == visited[i].data.obj
                IN  /\ \A k \in DOMAIN obj : k \in DOMAIN item /\ item[k] = obj[k]
                    /\ DOMAIN item \ DOMAIN obj \subseteq ProvKeys
                    /\ ProvKeys \subseteq DOMAIN item

(***************************************************************************)
(* C9. No directory below an excluded directory name is ever walked, and   *)
(* no file with an excluded name among its directories is counted, made an *)
(* item or given an error message; the counters count only the other files. *)
(***************************************************************************)
HasExcluded(dir) == \E i \in 1..Len(dir) : dir[i] \in excludes

C9_Excluded ==
    /\ ~HasExcluded(dirpath)
    /\ \A i \in DOMAIN todo : ~HasExcluded(todo[i])
    /\ \A p \in fs :
          UnderExcluded(p) =>
             /\ Times(p) = 0
             /\ ItemsOf(groups, p) = {}
             /\ ~HasMsg(skipped_files, p)
    /\ counts.total_files_found <= Cardinality({p \in fs : ~UnderExcluded(p)})
    /\ pc = "done" =>
          aggregated.metadata.total_files_found
             = Cardinality({p \in fs : Len(p) >= 2 /\ is_json(p[Len(p)]) /\ ~UnderExcluded(p)})

C9_Witness ==
    /\ pc = "done"
    /\ <<s_math, s_git, s_03, Json(s_15)>> \in fs
    /\ aggregated.metadata.total_files_found = 1
    /\ aggregated.metadata.total_parsed = 1

(***************************************************************************)
(* C10. In the document every key of groups is a key of metadata.groups,   *)
(* each list of groups has as many items as its group's parsed counter and *)
(* at least one, and a group whose files were all skipped after reading is *)
(* in metadata.groups with parsed = 0 and is no key of groups.             *)
(***************************************************************************)
ReadOf(g, kinds) ==
    {i \in DOMAIN visited : visited[i].path[1] = g /\ visited[i].data.kind \in kinds}

C10_GroupsAndMetadata ==
    pc = "done" =>
        /\ DOMAIN aggregated.groups \subseteq DOMAIN aggregated.metadata.groups
        /\ \A g \in DOMAIN aggregated.groups :
              /\ Len(aggregated.groups[g]) = aggregated.metadata.groups[g].parsed
              /\ Len(aggregated.groups[g]) >= 1
        /\ \A i \in DOMAIN visited :
              LET g == visited[i].path[1]
              IN  (/\ ReadOf(g, {"badjson", "scalar", "oserror"}) # {}
                   /\ ReadOf(g, {"dict", "list"}) = {}) =>
                      /\ g \in DOMAIN aggregated.metadata.groups
                      /\ aggregated.metadata.groups[g].parsed = 0
                      /\ g \notin DOMAIN aggregated.groups

C10_Witness ==
    /\ pc = "done"
    /\ \E g \in DOMAIN aggregated.metadata.groups :
          /\ g \notin DOMAIN aggregated.groups
          /\ aggregated.metadata.groups[g].skipped = 1
    /\ DOMAIN aggregated.groups # {}

=============================================================================
